---- MODULE Spec2Model ----
(***************************************************************************)
(* Model of lance-encoding's physical value encoding                       *)
(* (rust/lance-encoding/src/encodings/physical/value.rs):                  *)
(*   - ValuePageScheduler::schedule_ranges  (row ranges -> byte ranges)    *)
(*   - ValuePageDecoder  (lazy, mutex-guarded decompression cache and the  *)
(*     scatter/gather copy decode_buffer / decode_into)                    *)
(*   - ValueEncoder  (bit-packed / flat / compressed selection)            *)
(*                                                                         *)
(* Byte buffers are sequences of naturals below 256.  All u64 quantities   *)
(* of the model stay far below 2^64, so u64 arithmetic is exact here.      *)
(***************************************************************************)
EXTENDS Integers, Sequences, FiniteSets, TLC

(***************************************************************************)
(* Bounds of the model                                                     *)
(***************************************************************************)
\* rows held by the page
MaxRows == 2
\* longest list of row ranges handed to schedule_ranges
MaxRanges == 2
\* largest rows_to_skip / num_rows handed to decode_into
MaxSkip == 1
MaxTake == 2
\* the I/O layer of the scatter/gather check returns at most MaxChunks buffers
\* of at most MaxChunkLen bytes each
MaxChunks == 3
MaxChunkLen == 4
\* a decoder shared by concurrent callers: the longest list of row ranges it
\* was scheduled with, and the largest rows_to_skip / num_rows of a call
MaxSharedRanges == 1
MaxSharedSkip == 1
MaxSharedTake == 1
\* arrays in one batch handed to encode, and encode calls on one counter
MaxArrays == 2
MaxEncodes == 2
\* decode_into stops being called once the decompressor ran this often
MaxDecompress == 2

\* callers that may share one decoder
Threads == {1, 2}
\* the single caller of the sequential read path
SingleCaller == {1}

BytesPerValueSet == {1, 4}
BufferOffsetSet == {100}

CompressionScheme == {"None", "Zstd"}

(***************************************************************************)
(* Helpers on sequences                                                    *)
(***************************************************************************)
RECURSIVE Concat(_)
Concat(chunks) ==
    IF chunks = <<>> THEN <<>> ELSE Head(chunks) \o Concat(Tail(chunks))

Slice(buf, start, end) == SubSeq(buf, start + 1, end)

Reverse(s) == [i \in 1..Len(s) |-> s[Len(s) + 1 - i]]

None == <<>>
Some(v) == <<v>>

RowRange == {[start |-> s, end |-> e] : s \in 0..MaxRows, e \in 0..MaxRows}

Ranges == {r \in RowRange : r.start <= r.end}

RECURSIVE SeqsUpTo(_, _)
SeqsUpTo(S, n) ==
    IF n = 0 THEN {<<>>}
    ELSE LET shorter == SeqsUpTo(S, n - 1)
         IN  shorter \cup {Append(q, x) : q \in {p \in shorter : Len(p) = n - 1}, x \in S}

RangeLists == SeqsUpTo(Ranges, MaxRanges)

(***************************************************************************)
(* State                                                                   *)
(***************************************************************************)
VARIABLES
    \* ValuePageScheduler
    bytes_per_value, buffer_offset, buffer_size, compression_scheme,
    \* the page: its original value bytes and the bytes stored in the file
    values, stored,
    \* schedule_ranges: requests handed to the I/O submitter, the position of
    \* the returned future, the ranges it was called with, its range_offsets
    io_requests, sched_pc, req_ranges, range_offsets,
    \* what the submitter's future resolved to, and what the future returned by
    \* schedule_ranges yields
    io_response, sched_result,
    \* ValuePageDecoder
    data, uncompressed_data, uncompressed_range_offsets,
    \* the Mutex of uncompressed_data: 0 when free, else the holder
    lock,
    \* number of GeneralBufferCompressor::decompress invocations
    decompress_calls,
    \* decode_into, per caller
    pc, rows_to_skip, num_rows, bytes_to_skip, bytes_to_take, buf_idx, dest,
    src, result,
    \* update_capacity, per caller: the caller's (size, needed) slots, one per
    \* buffer of the decoder, and its all-null flag
    buffers, all_null,
    \* ValueEncoder: the outcome of try_new and the fields of the encoder
    enc_pc, enc_data_type, enc_compression_scheme, flat_buffer_encoder,
    bitpack_buffer_encoder,
    \* the caller's buffer counter, its first value, and for every encode call
    \* the value it read
    buffer_index, first_index, index_log,
    \* the last encode call: its arrays and what it returned
    enc_arrays, enc_result,
    \* the last parse_compression_scheme call: its argument and its Result
    parse_input, parse_result,
    \* the last formatting of a CompressionScheme: the scheme and the text
    display_input, display_result

schedVars == <<bytes_per_value, buffer_offset, buffer_size, compression_scheme>>
pageVars == <<values, stored>>
ioVars == <<io_requests, sched_pc, req_ranges, range_offsets, io_response, sched_result>>
decoderVars == <<data, uncompressed_data, uncompressed_range_offsets>>
callVars == <<pc, rows_to_skip, num_rows, bytes_to_skip, bytes_to_take, buf_idx,
              dest, src, result>>
capVars == <<buffers, all_null>>
readVars == <<schedVars, pageVars, ioVars, decoderVars, lock, decompress_calls,
              callVars, capVars>>

encoderVars == <<enc_pc, enc_data_type, enc_compression_scheme, flat_buffer_encoder,
                 bitpack_buffer_encoder>>
schemeVars == <<parse_input, parse_result, display_input, display_result>>
encVars == <<encoderVars, buffer_index, first_index, index_log, enc_arrays, enc_result,
             schemeVars>>

vars == <<readVars, encVars>>

(***************************************************************************)
(* The block compressor (GeneralBufferCompressor, buffers.rs): a length    *)
(* header followed by the transformed payload.  Decompression fails on a   *)
(* block whose header does not match its payload (corrupt or truncated).   *)
(***************************************************************************)
Compress(bytes) == <<Len(bytes)>> \o Reverse(bytes)

Decompress(block) ==
    IF block # <<>> /\ block[1] = Len(block) - 1
    THEN [ok |-> TRUE, bytes |-> Reverse(Tail(block))]
    ELSE [ok |-> FALSE, bytes |-> <<>>]

Truncate(block) == SubSeq(block, 1, Len(block) - 1)

(***************************************************************************)
(* The page written by the encoder's flat path: raw for None, one          *)
(* compressed block for Zstd.                                              *)
(***************************************************************************)
PageValues(bpv) == [p \in 1..(MaxRows * bpv) |-> p]

StoredPage(vals, scheme, corrupt) ==
    IF scheme = "None" THEN vals
    ELSE IF corrupt THEN Truncate(Compress(vals)) ELSE Compress(vals)

Configs ==
    {c \in [bpv : BytesPerValueSet, off : BufferOffsetSet,
            scheme : CompressionScheme, corrupt : BOOLEAN] :
        c.scheme = "None" => ~c.corrupt}

\* PhysicalPageDecoder::num_buffers
num_buffers == 1

\* the slots a caller hands to update_capacity, one per buffer
NoCapacity == [i \in 1..num_buffers |-> [size |-> 0, needed |-> FALSE]]


CallInit ==
    /\ pc = [t \in Threads |-> "idle"]
    /\ rows_to_skip = [t \in Threads |-> 0]
    /\ num_rows = [t \in Threads |-> 0]
    /\ bytes_to_skip = [t \in Threads |-> 0]
    /\ bytes_to_take = [t \in Threads |-> 0]
    /\ buf_idx = [t \in Threads |-> 1]
    /\ dest = [t \in Threads |-> <<>>]
    /\ src = [t \in Threads |-> "none"]
    /\ result = [t \in Threads |-> "none"]
    /\ buffers = [t \in Threads |-> NoCapacity]
    /\ all_null = [t \in Threads |-> FALSE]

\* ValuePageScheduler::new over a page of the file
ReadInit(configs) ==
    /\ \E c \in configs :
        /\ bytes_per_value = c.bpv
        /\ buffer_offset = c.off
        /\ compression_scheme = c.scheme
        /\ values = PageValues(c.bpv)
        /\ stored = StoredPage(PageValues(c.bpv), c.scheme, c.corrupt)
        /\ buffer_size = Len(StoredPage(PageValues(c.bpv), c.scheme, c.corrupt))
    /\ io_requests = <<>>
    /\ sched_pc = "idle"
    /\ req_ranges = <<>>
    /\ range_offsets = <<>>
    /\ io_response = None
    /\ sched_result = None
    /\ data = <<>>
    /\ uncompressed_data = None
    /\ uncompressed_range_offsets = <<>>
    /\ lock = 0
    /\ decompress_calls = 0
    /\ CallInit

(***************************************************************************)
(* ValuePageScheduler::schedule_ranges                                     *)
(***************************************************************************)
\* mutant: the requested ranges coalesced into the one range min..max
ByteRanges_coalesced(ranges) ==
    IF compression_scheme = "None" /\ ranges # <<>>
    THEN LET starts == {buffer_offset + ranges[i].start * bytes_per_value : i \in 1..Len(ranges)}
             ends == {buffer_offset + ranges[i].end * bytes_per_value : i \in 1..Len(ranges)}
         IN  << [start |-> CHOOSE m \in starts : \A x \in starts : m <= x,
                 end |-> CHOOSE m \in ends : \A x \in ends : m >= x] >>
    ELSE IF compression_scheme = "None" THEN <<>>
    ELSE << [start |-> buffer_offset, end |-> buffer_offset + buffer_size] >>

\* mutant: one byte range per row range whatever the compression
ByteRanges_per_range(ranges) ==
    [i \in 1..Len(ranges) |->
        [start |-> buffer_offset + ranges[i].start * bytes_per_value,
         end |-> buffer_offset + ranges[i].end * bytes_per_value]]

ByteRanges(ranges) ==
    IF compression_scheme = "None"
    THEN [i \in 1..Len(ranges) |->
            [start |-> buffer_offset + ranges[i].start * bytes_per_value,
             end |-> buffer_offset + ranges[i].end * bytes_per_value]]
    ELSE << [start |-> buffer_offset, end |-> buffer_offset + buffer_size] >>

\* mutant: the logical offsets left in rows, not scaled to bytes
RangeOffsets_unscaled(ranges) ==
    IF compression_scheme # "None"
    THEN [i \in 1..Len(ranges) |-> [start |-> ranges[i].start, end |-> ranges[i].end]]
    ELSE <<>>

RangeOffsets(ranges) ==
    IF compression_scheme # "None"
    THEN [i \in 1..Len(ranges) |->
            [start |-> ranges[i].start * bytes_per_value,
             end |-> ranges[i].end * bytes_per_value]]
    ELSE <<>>

\* the synchronous part: lines 90-133
schedule_ranges(ranges) ==
    /\ sched_pc = "idle"
    /\ io_requests' = Append(io_requests, ByteRanges(ranges))
    /\ range_offsets' = RangeOffsets(ranges)
    /\ req_ranges' = ranges
    /\ sched_pc' = "awaiting"
    /\ UNCHANGED <<encVars, schedVars, capVars, pageVars, io_response, sched_result, decoderVars,
                   lock, decompress_calls, callVars>>

\* EncodingsIo::submit_request: one buffer per requested range, in order
ReadFile(range) ==
    [i \in 1..(range.end - range.start) |-> stored[range.start - buffer_offset + i]]

SubmitResult(byte_ranges) == [i \in 1..Len(byte_ranges) |-> ReadFile(byte_ranges[i])]

\* the future resolves successfully: lines 136-143
FutureOk ==
    /\ sched_pc = "awaiting"
    /\ io_response' = Some([ok |-> TRUE, bytes |-> SubmitResult(io_requests[Len(io_requests)])])
    /\ data' = SubmitResult(io_requests[Len(io_requests)])
    /\ uncompressed_data' = None
    /\ uncompressed_range_offsets' = range_offsets
    /\ sched_pc' = "decoder"
    /\ sched_result' = Some([ok |-> TRUE])
    /\ UNCHANGED <<encVars, schedVars, capVars, pageVars, io_requests, req_ranges, range_offsets,
                   lock, decompress_calls, callVars>>

\* the errors the I/O layer can report
IoErrors == {"NotFound", "Timeout"}

\* a scheduler that submits the request again when the read fails
FutureErr_retry(e) ==
    /\ sched_pc = "awaiting"
    /\ Len(io_requests) < 2
    /\ io_response' = Some([ok |-> FALSE, error |-> e])
    /\ io_requests' = Append(io_requests, io_requests[Len(io_requests)])
    /\ UNCHANGED <<encVars, schedVars, capVars, pageVars, sched_pc, sched_result, req_ranges,
                   range_offsets, decoderVars, lock, decompress_calls, callVars>>

\* the future resolves to an I/O error: line 136, the ? hands it to the caller
FutureErr(e) ==
    /\ sched_pc = "awaiting"
    /\ io_response' = Some([ok |-> FALSE, error |-> e])
    /\ sched_pc' = "error"
    /\ sched_result' = Some([ok |-> FALSE, error |-> e])
    /\ UNCHANGED <<encVars, schedVars, capVars, pageVars, io_requests, req_ranges, range_offsets,
                   decoderVars, lock, decompress_calls, callVars>>

(***************************************************************************)
(* ValuePageDecoder                                                        *)
(***************************************************************************)
is_compressed == uncompressed_range_offsets # <<>>

Min(a, b) == IF a <= b THEN a ELSE b

\* mutant: bytes_to_skip is not cleared once the skipped prefix is consumed
decode_buffer_keep_skip(buf, skip, take, dst) ==
    IF skip > Len(buf)
    THEN [skip |-> skip - Len(buf), take |-> take, dest |-> dst]
    ELSE LET bytes_to_take_here == Min(Len(buf) - skip, take)
         IN  [skip |-> skip, take |-> take - bytes_to_take_here,
              dest |-> dst \o Slice(buf, skip, skip + bytes_to_take_here)]

\* mutant: the rest of the chunk is taken whatever is left to take
decode_buffer_no_min(buf, skip, take, dst) ==
    IF skip > Len(buf)
    THEN [skip |-> skip - Len(buf), take |-> take, dest |-> dst]
    ELSE LET bytes_to_take_here == Len(buf) - skip
         IN  [skip |-> 0, take |-> take - bytes_to_take_here,
              dest |-> dst \o Slice(buf, skip, skip + bytes_to_take_here)]

\* mutant: the bytes are taken from the start of the chunk
decode_buffer_from_start(buf, skip, take, dst) ==
    IF skip > Len(buf)
    THEN [skip |-> skip - Len(buf), take |-> take, dest |-> dst]
    ELSE LET bytes_to_take_here == Min(Len(buf) - skip, take)
         IN  [skip |-> 0, take |-> take - bytes_to_take_here,
              dest |-> dst \o Slice(buf, 0, bytes_to_take_here)]

\* decode_buffer: one chunk of the scatter/gather copy
decode_buffer(buf, skip, take, dst) ==
    IF skip > Len(buf)
    THEN [skip |-> skip - Len(buf), take |-> take, dest |-> dst]
    ELSE LET bytes_to_take_here == Min(Len(buf) - skip, take)
             start == skip
             end == start + bytes_to_take_here
         IN  [skip |-> 0, take |-> take - bytes_to_take_here,
              dest |-> dst \o Slice(buf, start, end)]

\* mutant: the cache keeps the decompressed block as one buffer
decompress_whole ==
    LET r == Decompress(data[1])
    IN  IF r.ok THEN [ok |-> TRUE, bytes |-> <<r.bytes>>]
        ELSE [ok |-> FALSE, bytes |-> <<>>]

\* decompress: the block of data[0], sliced by uncompressed_range_offsets
decompress ==
    LET r == Decompress(data[1])
    IN  IF r.ok
        THEN [ok |-> TRUE,
              bytes |-> [i \in 1..Len(uncompressed_range_offsets) |->
                            Slice(r.bytes, uncompressed_range_offsets[i].start,
                                  uncompressed_range_offsets[i].end)]]
        ELSE [ok |-> FALSE, bytes |-> <<>>]

\* the buffers a call scans: the cache (line 234) or the fetched data (line 238)
Source(t) == IF src[t] = "cache" THEN uncompressed_data[1] ELSE data

\* mutant: the size counts the skipped rows as well
update_capacity_with_skipped(t, k, n) ==
    /\ sched_pc = "decoder"
    /\ pc[t] = "idle"
    /\ rows_to_skip' = [rows_to_skip EXCEPT ![t] = k]
    /\ num_rows' = [num_rows EXCEPT ![t] = n]
    /\ buffers' = [buffers EXCEPT ![t][1] = [size |-> bytes_per_value * (k + n),
                                             needed |-> TRUE]]
    /\ pc' = [pc EXCEPT ![t] = "sized"]
    /\ UNCHANGED <<encVars, schedVars, pageVars, ioVars, decoderVars, lock,
                   decompress_calls, bytes_to_skip, bytes_to_take, buf_idx, dest, src,
                   result, all_null>>

\* update_capacity, lines 208-217: the caller sizes its destination before it
\* calls decode_into
update_capacity(t, k, n) ==
    /\ sched_pc = "decoder"
    /\ pc[t] = "idle"
    /\ rows_to_skip' = [rows_to_skip EXCEPT ![t] = k]
    /\ num_rows' = [num_rows EXCEPT ![t] = n]
    /\ buffers' = [buffers EXCEPT ![t][1] = [size |-> bytes_per_value * n,
                                             needed |-> TRUE]]
    /\ pc' = [pc EXCEPT ![t] = "sized"]
    /\ UNCHANGED <<encVars, schedVars, pageVars, ioVars, decoderVars, lock,
                   decompress_calls, bytes_to_skip, bytes_to_take, buf_idx, dest, src,
                   result, all_null>>

\* decode_into, lines 225-232: the counters and the choice of the path
decode_into(t, k, n) ==
    /\ sched_pc = "decoder"
    /\ pc[t] \in {"idle", "sized"}
    /\ buffers' = [buffers EXCEPT ![t] = NoCapacity]
    /\ UNCHANGED all_null
    /\ decompress_calls < MaxDecompress
    /\ rows_to_skip' = [rows_to_skip EXCEPT ![t] = k]
    /\ num_rows' = [num_rows EXCEPT ![t] = n]
    /\ bytes_to_skip' = [bytes_to_skip EXCEPT ![t] = k * bytes_per_value]
    /\ bytes_to_take' = [bytes_to_take EXCEPT ![t] = n * bytes_per_value]
    /\ buf_idx' = [buf_idx EXCEPT ![t] = 1]
    /\ dest' = [dest EXCEPT ![t] = <<>>]
    /\ result' = [result EXCEPT ![t] = "none"]
    /\ IF is_compressed
       THEN /\ pc' = [pc EXCEPT ![t] = "lock_cache"]
            /\ src' = [src EXCEPT ![t] = "none"]
       ELSE /\ pc' = [pc EXCEPT ![t] = "scan"]
            /\ src' = [src EXCEPT ![t] = "data"]
    /\ UNCHANGED <<encVars, schedVars, pageVars, ioVars, decoderVars, lock, decompress_calls>>

\* get_uncompressed_bytes, line 175: take the mutex
LockCache(t) ==
    /\ pc[t] = "lock_cache"
    /\ lock = 0
    /\ lock' = t
    /\ pc' = [pc EXCEPT ![t] = "populate"]
    /\ UNCHANGED <<encVars, schedVars, capVars, pageVars, ioVars, decoderVars, decompress_calls,
                   rows_to_skip, num_rows, bytes_to_skip, bytes_to_take, buf_idx,
                   dest, src, result>>

\* mutant: the cache is repopulated on every call, without the is_none check
get_uncompressed_bytes_no_check(t) ==
    /\ pc[t] = "populate"
    /\ lock = t
    /\ lock' = 0
    /\ decompress_calls' = decompress_calls + 1
    /\ IF decompress.ok
       THEN /\ uncompressed_data' = Some(decompress.bytes)
            /\ pc' = [pc EXCEPT ![t] = "lock_read"]
            /\ UNCHANGED result
       ELSE /\ UNCHANGED uncompressed_data
            /\ pc' = [pc EXCEPT ![t] = "returned"]
            /\ result' = [result EXCEPT ![t] = "Err"]
    /\ UNCHANGED <<encVars, schedVars, capVars, pageVars, ioVars, data, uncompressed_range_offsets,
                   rows_to_skip, num_rows, bytes_to_skip, bytes_to_take, buf_idx,
                   dest, src>>

\* mutant: a failed decompression is cached as an empty buffer list
get_uncompressed_bytes_cache_error(t) ==
    /\ pc[t] = "populate"
    /\ lock = t
    /\ lock' = 0
    /\ IF uncompressed_data = None
       THEN /\ decompress_calls' = decompress_calls + 1
            /\ uncompressed_data' = Some(decompress.bytes)
            /\ IF decompress.ok
               THEN /\ pc' = [pc EXCEPT ![t] = "lock_read"]
                    /\ UNCHANGED result
               ELSE /\ pc' = [pc EXCEPT ![t] = "returned"]
                    /\ result' = [result EXCEPT ![t] = "Err"]
       ELSE /\ pc' = [pc EXCEPT ![t] = "lock_read"]
            /\ UNCHANGED <<uncompressed_data, decompress_calls, result>>
    /\ UNCHANGED <<encVars, schedVars, capVars, pageVars, ioVars, data, uncompressed_range_offsets,
                   rows_to_skip, num_rows, bytes_to_skip, bytes_to_take, buf_idx,
                   dest, src>>

\* mutant: the guard is still held when get_uncompressed_bytes returns
get_uncompressed_bytes_holding_lock(t) ==
    /\ pc[t] = "populate"
    /\ lock = t
    /\ UNCHANGED lock
    /\ IF uncompressed_data = None
       THEN /\ decompress_calls' = decompress_calls + 1
            /\ IF decompress.ok
               THEN /\ uncompressed_data' = Some(decompress.bytes)
                    /\ pc' = [pc EXCEPT ![t] = "lock_read"]
                    /\ UNCHANGED result
               ELSE /\ UNCHANGED uncompressed_data
                    /\ pc' = [pc EXCEPT ![t] = "returned"]
                    /\ result' = [result EXCEPT ![t] = "Err"]
       ELSE /\ pc' = [pc EXCEPT ![t] = "lock_read"]
            /\ UNCHANGED <<uncompressed_data, decompress_calls, result>>
    /\ UNCHANGED <<encVars, schedVars, capVars, pageVars, ioVars, data,
                   uncompressed_range_offsets, rows_to_skip, num_rows, bytes_to_skip,
                   bytes_to_take, buf_idx, dest, src>>

\* get_uncompressed_bytes, lines 176-180: check, populate, drop the guard
get_uncompressed_bytes(t) ==
    /\ pc[t] = "populate"
    /\ lock = t
    /\ lock' = 0
    /\ IF uncompressed_data = None
       THEN /\ decompress_calls' = decompress_calls + 1
            /\ IF decompress.ok
               THEN /\ uncompressed_data' = Some(decompress.bytes)
                    /\ pc' = [pc EXCEPT ![t] = "lock_read"]
                    /\ UNCHANGED result
               ELSE /\ UNCHANGED uncompressed_data
                    /\ pc' = [pc EXCEPT ![t] = "returned"]
                    /\ result' = [result EXCEPT ![t] = "Err"]
       ELSE /\ pc' = [pc EXCEPT ![t] = "lock_read"]
            /\ UNCHANGED <<uncompressed_data, decompress_calls, result>>
    /\ UNCHANGED <<encVars, schedVars, capVars, pageVars, ioVars, data, uncompressed_range_offsets,
                   rows_to_skip, num_rows, bytes_to_skip, bytes_to_take, buf_idx,
                   dest, src>>

\* decode_into, line 234: take the mutex again and unwrap the cache
LockRead(t) ==
    /\ pc[t] = "lock_read"
    /\ lock = 0
    /\ lock' = t
    /\ IF uncompressed_data = None
       THEN /\ pc' = [pc EXCEPT ![t] = "panicked"]
            /\ UNCHANGED src
       ELSE /\ pc' = [pc EXCEPT ![t] = "scan"]
            /\ src' = [src EXCEPT ![t] = "cache"]
    /\ UNCHANGED <<encVars, schedVars, capVars, pageVars, ioVars, decoderVars, decompress_calls,
                   rows_to_skip, num_rows, bytes_to_skip, bytes_to_take, buf_idx,
                   dest, result>>

\* one iteration of the loop of line 234 or line 238
ScanStep(t) ==
    /\ pc[t] = "scan"
    /\ buf_idx[t] <= Len(Source(t))
    /\ LET r == decode_buffer(Source(t)[buf_idx[t]], bytes_to_skip[t],
                              bytes_to_take[t], dest[t])
       IN  /\ bytes_to_skip' = [bytes_to_skip EXCEPT ![t] = r.skip]
           /\ bytes_to_take' = [bytes_to_take EXCEPT ![t] = r.take]
           /\ dest' = [dest EXCEPT ![t] = r.dest]
    /\ buf_idx' = [buf_idx EXCEPT ![t] = buf_idx[t] + 1]
    /\ UNCHANGED <<encVars, schedVars, capVars, pageVars, ioVars, decoderVars, lock,
                   decompress_calls,
                   pc, rows_to_skip, num_rows, src, result>>

\* mutant: a call that could not take all the bytes it was asked for fails
ScanDone_checked(t) ==
    /\ pc[t] = "scan"
    /\ buf_idx[t] > Len(Source(t))
    /\ lock' = IF src[t] = "cache" THEN 0 ELSE lock
    /\ result' = [result EXCEPT ![t] = IF bytes_to_take[t] > 0 THEN "Err" ELSE "Ok"]
    /\ pc' = [pc EXCEPT ![t] = "returned"]
    /\ UNCHANGED <<encVars, schedVars, capVars, pageVars, ioVars, decoderVars, decompress_calls,
                   rows_to_skip, num_rows, bytes_to_skip, bytes_to_take, buf_idx,
                   dest, src>>

\* mutant: the scan takes the cached buffers out of the cache
ScanDone_take_cache(t) ==
    /\ pc[t] = "scan"
    /\ buf_idx[t] > Len(Source(t))
    /\ lock' = IF src[t] = "cache" THEN 0 ELSE lock
    /\ uncompressed_data' = IF src[t] = "cache" THEN None ELSE uncompressed_data
    /\ result' = [result EXCEPT ![t] = "Ok"]
    /\ pc' = [pc EXCEPT ![t] = "returned"]
    /\ UNCHANGED <<encVars, schedVars, capVars, pageVars, ioVars, data,
                   uncompressed_range_offsets, decompress_calls,
                   rows_to_skip, num_rows, bytes_to_skip, bytes_to_take, buf_idx,
                   dest, src>>

\* the loop ends (the guard of line 234 is dropped) and line 242 returns Ok
ScanDone(t) ==
    /\ pc[t] = "scan"
    /\ buf_idx[t] > Len(Source(t))
    /\ lock' = IF src[t] = "cache" THEN 0 ELSE lock
    /\ result' = [result EXCEPT ![t] = "Ok"]
    /\ pc' = [pc EXCEPT ![t] = "returned"]
    /\ UNCHANGED <<encVars, schedVars, capVars, pageVars, ioVars, decoderVars, decompress_calls,
                   rows_to_skip, num_rows, bytes_to_skip, bytes_to_take, buf_idx,
                   dest, src>>

\* the caller takes the result; it may call again
Return(t) ==
    /\ pc[t] = "returned"
    /\ pc' = [pc EXCEPT ![t] = "idle"]
    /\ rows_to_skip' = [rows_to_skip EXCEPT ![t] = 0]
    /\ num_rows' = [num_rows EXCEPT ![t] = 0]
    /\ bytes_to_skip' = [bytes_to_skip EXCEPT ![t] = 0]
    /\ bytes_to_take' = [bytes_to_take EXCEPT ![t] = 0]
    /\ buf_idx' = [buf_idx EXCEPT ![t] = 1]
    /\ dest' = [dest EXCEPT ![t] = <<>>]
    /\ src' = [src EXCEPT ![t] = "none"]
    /\ result' = [result EXCEPT ![t] = "none"]
    /\ UNCHANGED <<encVars, schedVars, capVars, pageVars, ioVars, decoderVars, lock,
                   decompress_calls>>

Decode(T, skips, takes) ==
    \E t \in T :
        \/ \E k \in skips, n \in takes : update_capacity(t, k, n)
        \/ \E k \in skips, n \in takes : decode_into(t, k, n)
        \/ LockCache(t)
        \/ get_uncompressed_bytes(t)
        \/ LockRead(t)
        \/ ScanStep(t)
        \/ ScanDone(t)
        \/ Return(t)

(***************************************************************************)
(* ValueEncoder                                                            *)
(***************************************************************************)
DataTypes == {"Boolean", "UInt8", "UInt16", "Int8", "Float32", "Utf8"}

\* DataTypeExt::is_fixed_stride and DataType::byte_width (lance-arrow)
is_fixed_stride(data_type) == data_type \in {"Boolean", "UInt8", "UInt16", "Int8", "Float32"}

byte_width(data_type) ==
    CASE data_type \in {"UInt8", "Int8"} -> 1
      [] data_type = "UInt16" -> 2
      [] data_type = "Float32" -> 4

\* the arrays of the model, those of the tests among them
ArraysOf(data_type) ==
    CASE data_type = "UInt8" -> {<<0, 1, 2, 3, 4, 5>>, <<0, 1, 2, 3, 4, 250>>, <<1>>}
      [] data_type = "UInt16" -> {<<0, 1, 2, 3, 4, 1280>>, <<0, 1, 2, 3, 4, 64000>>, <<1>>}
      [] data_type = "Int8" -> {<<0 - 1, 5>>, <<5>>}
      [] data_type = "Float32" -> {<<1, 2, 3>>}
      [] data_type = "Boolean" -> {<<0, 1>>, <<1>>}
      [] OTHER -> {<<1>>}

Batches(data_type) ==
    {[i \in 1..Len(b) |-> [data_type |-> data_type, values |-> b[i]]] :
        b \in SeqsUpTo(ArraysOf(data_type), MaxArrays) \ {<<>>}}

SeqMax(s) == CHOOSE m \in {s[i] : i \in 1..Len(s)} : \A i \in 1..Len(s) : s[i] <= m

RECURSIVE BitsFor(_)
BitsFor(v) == IF v <= 1 THEN 1 ELSE 1 + BitsFor(v \div 2)

\* bitpack::num_compressed_bits: the bits the largest value needs; None for a
\* type that is not an integer and for an array holding a negative value
num_compressed_bits(arr) ==
    IF arr.data_type \notin {"UInt8", "UInt16", "Int8"} THEN None
    ELSE IF \E i \in 1..Len(arr.values) : arr.values[i] < 0 THEN None
    ELSE Some(BitsFor(SeqMax(arr.values)))

\* Display for CompressionScheme
to_string(scheme) == IF scheme = "Zstd" THEN "zstd" ELSE "none"

\* the strings handed to parse_compression_scheme
SchemeNames == {"none", "zstd", "lz4", "Zstd", "NONE", "zstd ", ""}

InvalidInput(message) == [ok |-> FALSE, kind |-> "InvalidInput", message |-> message]

\* mutant: a parser that ignores the case of the name
parse_compression_scheme_ignore_case(scheme) ==
    CASE scheme \in {"none", "NONE"} -> [ok |-> TRUE, scheme |-> "None"]
      [] scheme \in {"zstd", "Zstd"} -> [ok |-> TRUE, scheme |-> "Zstd"]
      [] OTHER -> InvalidInput(<<"Unknown compression scheme: ", scheme>>)

\* parse_compression_scheme: the match of lines 46-53
parse_compression_scheme(scheme) ==
    CASE scheme = "none" -> [ok |-> TRUE, scheme |-> "None"]
      [] scheme = "zstd" -> [ok |-> TRUE, scheme |-> "Zstd"]
      [] OTHER -> InvalidInput(<<"Unknown compression scheme: ", scheme>>)

\* a caller parses a configured name
ParseCall(s) ==
    /\ enc_pc = "new"
    /\ parse_input # Some(s)
    /\ parse_input' = Some(s)
    /\ parse_result' = Some(parse_compression_scheme(s))
    /\ UNCHANGED <<readVars, encoderVars, buffer_index, first_index, index_log, enc_arrays,
                   enc_result, display_input, display_result>>

\* a caller formats a scheme
DisplayCall(scheme) ==
    /\ enc_pc = "new"
    /\ display_input # Some(scheme)
    /\ display_input' = Some(scheme)
    /\ display_result' = Some(to_string(scheme))
    /\ UNCHANGED <<readVars, encoderVars, buffer_index, first_index, index_log, enc_arrays,
                   enc_result, parse_input, parse_result>>

EncInit(first) ==
    /\ enc_pc = "new"
    /\ enc_data_type = "none"
    /\ enc_compression_scheme = "None"
    /\ flat_buffer_encoder = "none"
    /\ bitpack_buffer_encoder = None
    /\ first_index = first
    /\ buffer_index = first_index
    /\ index_log = <<>>
    /\ enc_arrays = <<>>
    /\ enc_result = None
    /\ parse_input = None
    /\ parse_result = None
    /\ display_input = None
    /\ display_result = None

\* mutant: a boolean encoder built like any other fixed-stride encoder
try_new_boolean_as_fixed_stride(data_type, scheme) ==
    /\ enc_pc = "new"
    /\ enc_data_type' = data_type
    /\ IF is_fixed_stride(data_type)
       THEN /\ enc_pc' = "encoder"
            /\ flat_buffer_encoder' = IF scheme # "None" THEN "CompressedBufferEncoder"
                                      ELSE "FlatBufferEncoder"
            /\ bitpack_buffer_encoder' = Some("BitpackingBufferEncoder")
            /\ enc_compression_scheme' = scheme
       ELSE /\ enc_pc' = "InvalidInput"
            /\ UNCHANGED <<flat_buffer_encoder, bitpack_buffer_encoder,
                           enc_compression_scheme>>
    /\ UNCHANGED <<readVars, buffer_index, first_index, index_log, enc_arrays, enc_result,
                   schemeVars>>

\* mutant: every type that is not boolean takes the fixed-stride arm
try_new_any_type(data_type, scheme) ==
    /\ enc_pc = "new"
    /\ enc_data_type' = data_type
    /\ enc_pc' = "encoder"
    /\ flat_buffer_encoder' = IF data_type = "Boolean" THEN "BitmapBufferEncoder"
                              ELSE IF scheme # "None" THEN "CompressedBufferEncoder"
                              ELSE "FlatBufferEncoder"
    /\ bitpack_buffer_encoder' = IF data_type = "Boolean" THEN None
                                 ELSE Some("BitpackingBufferEncoder")
    /\ enc_compression_scheme' = scheme
    /\ UNCHANGED <<readVars, buffer_index, first_index, index_log, enc_arrays, enc_result,
                   schemeVars>>

\* ValueEncoder::try_new
try_new(data_type, scheme) ==
    /\ enc_pc = "new"
    /\ enc_data_type' = data_type
    /\ IF data_type = "Boolean"
       THEN /\ enc_pc' = "encoder"
            /\ flat_buffer_encoder' = "BitmapBufferEncoder"
            /\ bitpack_buffer_encoder' = None
            /\ enc_compression_scheme' = scheme
       ELSE IF is_fixed_stride(data_type)
       THEN /\ enc_pc' = "encoder"
            /\ flat_buffer_encoder' = IF scheme # "None" THEN "CompressedBufferEncoder"
                                      ELSE "FlatBufferEncoder"
            /\ bitpack_buffer_encoder' = Some("BitpackingBufferEncoder")
            /\ enc_compression_scheme' = scheme
       ELSE /\ enc_pc' = "InvalidInput"
            /\ UNCHANGED <<flat_buffer_encoder, bitpack_buffer_encoder,
                           enc_compression_scheme>>
    /\ UNCHANGED <<readVars, buffer_index, first_index, index_log, enc_arrays, enc_result,
                   schemeVars>>

\* the loop of lines 293-299: the largest width, or None at the first array
\* that has none
RECURSIVE MaxCompressedBits(_, _)
MaxCompressedBits(arrays, num_bits) ==
    IF arrays = <<>> THEN Some(num_bits)
    ELSE LET arr_max == num_compressed_bits(Head(arrays))
         IN  IF arr_max = None THEN None
             ELSE MaxCompressedBits(Tail(arrays),
                                    IF arr_max[1] > num_bits THEN arr_max[1] ELSE num_bits)

\* a buffer encoder's encode: the bytes, tagged by the encoder that made them
BufferEncode(encoder, arrays, ok) ==
    IF ok THEN [ok |-> TRUE, parts |-> <<encoder>>] ELSE [ok |-> FALSE, parts |-> <<>>]

Bitpacked(num_bits, native_num_bits, index) ==
    [kind |-> "Bitpacked",
     compressed_bits_per_value |-> num_bits,
     uncompressed_bits_per_value |-> native_num_bits,
     buffer |-> [buffer_index |-> index, buffer_type |-> "Page"]]

Flat(bits_per_value, index, compression) ==
    [kind |-> "Flat",
     bits_per_value |-> bits_per_value,
     buffer |-> [buffer_index |-> index, buffer_type |-> "Page"],
     compression |-> compression]

\* mutant: the width of the last array instead of the largest one
try_bitpack_encode_last_width(arrays, index, ok) ==
    IF bitpack_buffer_encoder = None THEN [ok |-> TRUE, some |-> FALSE]
    ELSE IF \E i \in 1..Len(arrays) : num_compressed_bits(arrays[i]) = None
    THEN [ok |-> TRUE, some |-> FALSE]
    ELSE LET num_bits == num_compressed_bits(arrays[Len(arrays)])[1]
             native_num_bits == 8 * byte_width(arrays[1].data_type)
             encoded_buffer == BufferEncode(bitpack_buffer_encoder[1], arrays, ok)
         IN  IF num_bits >= native_num_bits THEN [ok |-> TRUE, some |-> FALSE]
             ELSE IF ~encoded_buffer.ok THEN [ok |-> FALSE, some |-> FALSE]
             ELSE [ok |-> TRUE, some |-> TRUE,
                   encoding |-> Bitpacked(num_bits, native_num_bits, index),
                   buffer |-> encoded_buffer]

\* mutant: bit-packing also chosen at the native width
try_bitpack_encode_at_native_width(arrays, index, ok) ==
    IF bitpack_buffer_encoder = None THEN [ok |-> TRUE, some |-> FALSE]
    ELSE LET num_bits == MaxCompressedBits(arrays, 0)
             native_num_bits == 8 * byte_width(arrays[1].data_type)
             encoded_buffer == BufferEncode(bitpack_buffer_encoder[1], arrays, ok)
         IN  IF num_bits = None THEN [ok |-> TRUE, some |-> FALSE]
             ELSE IF num_bits[1] > native_num_bits THEN [ok |-> TRUE, some |-> FALSE]
             ELSE IF ~encoded_buffer.ok THEN [ok |-> FALSE, some |-> FALSE]
             ELSE [ok |-> TRUE, some |-> TRUE,
                   encoding |-> Bitpacked(num_bits[1], native_num_bits, index),
                   buffer |-> encoded_buffer]

\* mutant: the record names the counter's new value, not the one read
try_bitpack_encode_next_index(arrays, index, ok) ==
    IF bitpack_buffer_encoder = None THEN [ok |-> TRUE, some |-> FALSE]
    ELSE LET num_bits == MaxCompressedBits(arrays, 0)
             native_num_bits == 8 * byte_width(arrays[1].data_type)
             encoded_buffer == BufferEncode(bitpack_buffer_encoder[1], arrays, ok)
         IN  IF num_bits = None THEN [ok |-> TRUE, some |-> FALSE]
             ELSE IF num_bits[1] >= native_num_bits THEN [ok |-> TRUE, some |-> FALSE]
             ELSE IF ~encoded_buffer.ok THEN [ok |-> FALSE, some |-> FALSE]
             ELSE [ok |-> TRUE, some |-> TRUE,
                   encoding |-> Bitpacked(num_bits[1], native_num_bits, index + 1),
                   buffer |-> encoded_buffer]

\* ValueEncoder::try_bitpack_encode: Ok(None), Err, or Ok(Some((encoding, buffer)))
try_bitpack_encode(arrays, index, ok) ==
    IF bitpack_buffer_encoder = None THEN [ok |-> TRUE, some |-> FALSE]
    ELSE LET num_bits == MaxCompressedBits(arrays, 0)
             native_num_bits == 8 * byte_width(arrays[1].data_type)
             encoded_buffer == BufferEncode(bitpack_buffer_encoder[1], arrays, ok)
         IN  IF num_bits = None THEN [ok |-> TRUE, some |-> FALSE]
             ELSE IF num_bits[1] >= native_num_bits THEN [ok |-> TRUE, some |-> FALSE]
             ELSE IF ~encoded_buffer.ok THEN [ok |-> FALSE, some |-> FALSE]
             ELSE [ok |-> TRUE, some |-> TRUE,
                   encoding |-> Bitpacked(num_bits[1], native_num_bits, index),
                   buffer |-> encoded_buffer]

\* the None arm of encode, lines 336-360
FlatEncode(arrays, index, ok) ==
    LET data_type == arrays[1].data_type
        bits_per_value == IF data_type = "Boolean" THEN 1 ELSE 8 * byte_width(data_type)
        encoded_buffer == BufferEncode(flat_buffer_encoder, arrays, ok)
    IN  IF ~encoded_buffer.ok THEN [ok |-> FALSE]
        ELSE [ok |-> TRUE,
              encoding |-> Flat(bits_per_value, index,
                                IF enc_compression_scheme # "None"
                                THEN Some([scheme |-> to_string(enc_compression_scheme)])
                                ELSE None),
              buffer |-> encoded_buffer]

\* ArrayEncoder::encode; ok is whether the buffer encoder it runs succeeds
encode(arrays, ok) ==
    /\ enc_pc = "encoder"
    /\ Len(index_log) < MaxEncodes
    /\ LET index == buffer_index
           bitpack_encoding == try_bitpack_encode(arrays, index, ok)
           chosen == IF ~bitpack_encoding.ok THEN [ok |-> FALSE]
                     ELSE IF bitpack_encoding.some THEN bitpack_encoding
                     ELSE FlatEncode(arrays, index, ok)
       IN  /\ buffer_index' = buffer_index + 1
           /\ index_log' = Append(index_log, index)
           /\ enc_arrays' = arrays
           /\ enc_result' =
                IF chosen.ok
                THEN Some([ok |-> TRUE,
                           buffers |-> << [parts |-> chosen.buffer.parts, index |-> index] >>,
                           encoding |-> chosen.encoding])
                ELSE Some([ok |-> FALSE])
    /\ UNCHANGED <<readVars, encoderVars, first_index, schemeVars>>

NextEnc ==
    \/ \E data_type \in DataTypes, scheme \in CompressionScheme : try_new(data_type, scheme)
    \/ /\ enc_pc = "encoder"
       /\ \E arrays \in Batches(enc_data_type), ok \in BOOLEAN : encode(arrays, ok)

(***************************************************************************)
(* The read path with one caller: schedule, fetch, decode                  *)
(***************************************************************************)
\* pages whose stored block is intact
Init == ReadInit({c \in Configs : ~c.corrupt}) /\ EncInit(0)

Next ==
    \/ sched_pc = "idle" /\ \E ranges \in RangeLists : schedule_ranges(ranges)
    \/ FutureOk
    \/ \E e \in IoErrors : FutureErr(e)
    \/ Decode(SingleCaller, 0..MaxSkip, 0..MaxTake)

Spec == Init /\ [][Next]_vars

(***************************************************************************)
(* Scatter/gather over an arbitrary chunking: the I/O layer is free in how *)
(* it cuts the fetched bytes into buffers                                  *)
(***************************************************************************)
ChunkLens == SeqsUpTo(0..MaxChunkLen, MaxChunks)

RECURSIVE SumLens(_)
SumLens(lens) == IF lens = <<>> THEN 0 ELSE Head(lens) + SumLens(Tail(lens))

\* the bytes 1, 2, 3, ... cut into chunks of the given lengths
ChunksOf(lens) ==
    [i \in 1..Len(lens) |->
        [j \in 1..lens[i] |-> SumLens(SubSeq(lens, 1, i - 1)) + j]]

\* the future resolves with the fetched bytes cut into the given chunks
FutureChunks(chunks) ==
    /\ sched_pc = "awaiting"
    /\ io_response' = Some([ok |-> TRUE, bytes |-> chunks])
    /\ data' = chunks
    /\ uncompressed_data' = None
    /\ uncompressed_range_offsets' = range_offsets
    /\ sched_pc' = "decoder"
    /\ sched_result' = Some([ok |-> TRUE])
    /\ UNCHANGED <<encVars, schedVars, capVars, pageVars, io_requests, req_ranges, range_offsets,
                   lock, decompress_calls, callVars>>

\* decode_into on an uncompressed page: is_compressed() is false, the calls
\* never take the cache path
DecodeUncompressed(T) ==
    \E t \in T :
        \/ \E k \in 0..MaxSkip, n \in 0..MaxTake : decode_into(t, k, n)
        \/ ScanStep(t)
        \/ ScanDone(t)
        \/ Return(t)

InitScan == ReadInit({c \in Configs : c.scheme = "None"}) /\ EncInit(0)

NextScan ==
    \/ schedule_ranges(<< [start |-> 0, end |-> MaxRows] >>)
    \/ sched_pc = "awaiting" /\ \E lens \in ChunkLens : FutureChunks(ChunksOf(lens))
    \/ DecodeUncompressed(SingleCaller)

SpecScan == InitScan /\ [][NextScan]_vars

(***************************************************************************)
(* One decoder shared by concurrent callers                                *)
(***************************************************************************)
\* the shared decoder serves prefixes of the page
SharedRangeLists == SeqsUpTo({r \in Ranges : r.start = 0}, MaxSharedRanges)

InitCache == ReadInit({c \in Configs : c.bpv = 4}) /\ EncInit(0)

NextCache ==
    \/ sched_pc = "idle" /\ \E ranges \in SharedRangeLists : schedule_ranges(ranges)
    \/ FutureOk
    \/ \E e \in IoErrors : FutureErr(e)
    \/ Decode(Threads, 0..MaxSharedSkip, 0..MaxSharedTake)

SpecCache == InitCache /\ [][NextCache]_vars

(***************************************************************************)
(* The mutex of the cache under fair scheduling: the callers of one        *)
(* decoder, scheduled on the page's single range                           *)
(***************************************************************************)
NextLock ==
    \/ sched_pc = "idle" /\ schedule_ranges(<< [start |-> 0, end |-> MaxRows] >>)
    \/ FutureOk
    \/ Decode(Threads, 0..MaxSharedSkip, 0..MaxSharedTake)

\* a caller starts a call: update_capacity or decode_into
NewCall ==
    \E t \in Threads :
        \/ pc[t] = "idle" /\ pc'[t] # "idle"
        \/ pc[t] = "sized" /\ pc'[t] # "sized"

\* fair scheduling of the threads: a thread that can take a step of
\* decode_into, the acquisition of the free mutex included, eventually takes
\* it; std::sync::Mutex promises no fairness between waiting threads, and
\* whether a caller calls or takes its result is up to the caller
FairCallers ==
    \A t \in Threads :
        /\ WF_vars(LockCache(t))
        /\ WF_vars(get_uncompressed_bytes(t))
        /\ WF_vars(LockRead(t))
        /\ WF_vars(ScanStep(t))
        /\ WF_vars(ScanDone(t))

\* the callers make any number of calls, but finitely many
FiniteCalls == <>[][~NewCall]_vars

SpecLock == InitCache /\ [][NextLock]_vars /\ FairCallers /\ FiniteCalls

(***************************************************************************)
(* The write path: construct an encoder, encode batches on one counter     *)
(***************************************************************************)
InitEnc == ReadInit({c \in Configs : c.bpv = 1 /\ c.scheme = "None"})
    /\ \E first \in {0, 1} : EncInit(first)

SpecEnc == InitEnc /\ [][NextEnc]_vars

(***************************************************************************)
(* The configured compression: a writer parses the configured name, builds *)
(* the encoder with the parsed scheme and encodes; schemes are formatted   *)
(* for the page metadata                                                   *)
(***************************************************************************)
InitConfig == ReadInit({c \in Configs : c.bpv = 1 /\ c.scheme = "None"}) /\ EncInit(0)

NextConfig ==
    \/ \E s \in SchemeNames : ParseCall(s)
    \/ \E scheme \in CompressionScheme : DisplayCall(scheme)
    \/ \E data_type \in DataTypes :
            /\ parse_result # None
            /\ parse_result[1].ok
            /\ try_new(data_type, parse_result[1].scheme)
    \/ /\ enc_pc = "encoder"
       /\ \E arrays \in Batches(enc_data_type), ok \in BOOLEAN : encode(arrays, ok)

SpecConfig == InitConfig /\ [][NextConfig]_vars

(***************************************************************************)
(* Properties                                                              *)
(***************************************************************************)
\* the scatter/gather copy run over a whole chunk list
RECURSIVE ScanAll(_, _, _, _)
ScanAll(chunks, skip, take, dst) ==
    IF chunks = <<>> THEN dst
    ELSE LET r == decode_buffer(Head(chunks), skip, take, dst)
         IN  ScanAll(Tail(chunks), r.skip, r.take, r.dest)

Returned(t) == pc[t] = "returned"
ReturnedOk(t) == pc[t] = "returned" /\ result[t] = "Ok"
ReturnedErr(t) == pc[t] = "returned" /\ result[t] = "Err"

\* C1: with compression None, schedule_ranges over N row ranges submits
\* exactly one I/O request of exactly N byte ranges, in input order, the i-th
\* being [buffer_offset + s_i*bytes_per_value, buffer_offset + e_i*bytes_per_value).
C1_UncompressedByteRanges ==
    compression_scheme = "None" =>
        IF sched_pc = "idle" THEN io_requests = <<>>
        ELSE /\ Len(io_requests) = 1
             /\ Len(io_requests[1]) = Len(req_ranges)
             /\ \A i \in 1..Len(req_ranges) :
                    /\ io_requests[1][i].start
                         = buffer_offset + req_ranges[i].start * bytes_per_value
                    /\ io_requests[1][i].end
                         = buffer_offset + req_ranges[i].end * bytes_per_value

\* bytes_per_value = 4, buffer_offset = 100: the ranges 1..2, 0..1 give
\* [104, 108), [100, 104), in that order
C1_Witness ==
    /\ compression_scheme = "None"
    /\ bytes_per_value = 4
    /\ buffer_offset = 100
    /\ req_ranges = << [start |-> 1, end |-> 2], [start |-> 0, end |-> 1] >>
    /\ io_requests = << << [start |-> 104, end |-> 108], [start |-> 100, end |-> 104] >> >>

\* C2: with a compression other than None, schedule_ranges over any number of
\* row ranges submits exactly the one byte range
\* [buffer_offset, buffer_offset + buffer_size), whatever the row ranges are.
C2_CompressedWholePage ==
    compression_scheme # "None" =>
        IF sched_pc = "idle" THEN io_requests = <<>>
        ELSE io_requests
               = << << [start |-> buffer_offset, end |-> buffer_offset + buffer_size] >> >>

C2_Witness ==
    /\ compression_scheme = "Zstd"
    /\ sched_pc = "awaiting"
    /\ Len(req_ranges) = 2
    /\ req_ranges[1] # req_ranges[2]
    /\ Len(io_requests) = 1
    /\ Len(io_requests[1]) = 1

\* C3: decode_into over a chunk list appends exactly the bytes that decode_into
\* over the single buffer holding the concatenation of the chunks appends, for
\* every bytes_per_value, rows_to_skip, num_rows and every chunking.
C3_ChunkedEqualsConcatenated ==
    \A t \in Threads :
        ReturnedOk(t) =>
            dest[t] = ScanAll(<<Concat(Source(t))>>, rows_to_skip[t] * bytes_per_value,
                              num_rows[t] * bytes_per_value, <<>>)

\* a chunk ending exactly where the skipped prefix ends, then an empty chunk
C3_Witness ==
    /\ ReturnedOk(1)
    /\ Len(data) = 3
    /\ rows_to_skip[1] > 0
    /\ Len(data[1]) = rows_to_skip[1] * bytes_per_value
    /\ data[2] = <<>>
    /\ dest[1] # <<>>
    /\ Len(dest[1]) = num_rows[1] * bytes_per_value

\* the decoder holds a compressed page whose block decompresses
DecompressionSucceeds == sched_pc = "decoder" /\ is_compressed /\ decompress.ok
DecompressionFails == sched_pc = "decoder" /\ is_compressed /\ ~decompress.ok

\* C4: on a decoder of a compressed page whose decompression succeeds, under
\* every interleaving of concurrent decode_into calls the decompressor runs at
\* most once, and exactly once as soon as any call got past the cache; every
\* call scans the one cached buffer list and none reads the cache while empty.
C4_DecompressOnce ==
    DecompressionSucceeds =>
        /\ decompress_calls <= 1
        /\ uncompressed_data \in {None, Some(decompress.bytes)}
        /\ (uncompressed_data = None) = (decompress_calls = 0)
        /\ \A t \in Threads :
            /\ pc[t] # "panicked"
            /\ ~ReturnedErr(t)
            /\ pc[t] \in {"lock_read", "scan"} \/ ReturnedOk(t) =>
                    /\ decompress_calls = 1
                    /\ uncompressed_data = Some(decompress.bytes)
            /\ pc[t] = "scan" \/ ReturnedOk(t) => src[t] = "cache"
            /\ ReturnedOk(t) =>
                    dest[t] = ScanAll(decompress.bytes, rows_to_skip[t] * bytes_per_value,
                                      num_rows[t] * bytes_per_value, <<>>)

\* both callers are through, one behind the other, after one decompression
C4_Witness ==
    /\ DecompressionSucceeds
    /\ \A t \in Threads : ReturnedOk(t) /\ dest[t] # <<>>
    /\ dest[1] # dest[2]
    /\ decompress_calls = 1

\* C5: when the decompressor fails during a decode_into call, that call
\* returns the error with nothing appended to the destination, the cache stays
\* None, and the next call on the decoder invokes the decompressor again.
C5_FailureNotCached ==
    /\ [](DecompressionFails =>
            /\ uncompressed_data = None
            /\ \A t \in Threads :
                /\ pc[t] \notin {"lock_read", "scan", "panicked"}
                /\ Returned(t) => result[t] = "Err" /\ dest[t] = <<>>)
    /\ [][\A t \in Threads :
            (DecompressionFails /\ pc[t] = "populate" /\ pc'[t] # "populate") =>
                /\ decompress_calls' = decompress_calls + 1
                /\ ReturnedErr(t)'
                /\ lock' = 0]_vars

\* a second call failed after the first one did
C5_Witness ==
    /\ DecompressionFails
    /\ decompress_calls = 2
    /\ ReturnedErr(1)
    /\ ReturnedErr(2)

\* the original bytes of the requested rows, in request order
RECURSIVE RequestedBytes(_)
RequestedBytes(ranges) ==
    IF ranges = <<>> THEN <<>>
    ELSE Slice(values, Head(ranges).start * bytes_per_value,
               Head(ranges).end * bytes_per_value) \o RequestedBytes(Tail(ranges))

RECURSIVE RequestedRows(_)
RequestedRows(ranges) ==
    IF ranges = <<>> THEN 0
    ELSE (Head(ranges).end - Head(ranges).start) + RequestedRows(Tail(ranges))

\* C6: round trip of the flat path, raw or block-compressed: after scheduling
\* row ranges, decode_into with rows_to_skip = k and num_rows = n within the
\* requested rows yields exactly the original bytes of the k-th through
\* (k+n-1)-th requested rows, in order.
C6_FlatRoundTrip ==
    \A t \in Threads :
        (/\ ReturnedOk(t)
         /\ rows_to_skip[t] + num_rows[t] <= RequestedRows(req_ranges)) =>
            dest[t] = Slice(RequestedBytes(req_ranges),
                            rows_to_skip[t] * bytes_per_value,
                            (rows_to_skip[t] + num_rows[t]) * bytes_per_value)

\* a window over two requested ranges of a compressed page
C6_Witness ==
    /\ compression_scheme = "Zstd"
    /\ ReturnedOk(1)
    /\ req_ranges = << [start |-> 1, end |-> 2], [start |-> 0, end |-> 2] >>
    /\ rows_to_skip[1] = 1
    /\ num_rows[1] = 2
    /\ dest[1] = Slice(values, 0, 2 * bytes_per_value)

\* the last encode call returned Ok
EncodedOk == enc_result # None /\ enc_result[1].ok
Encoding == enc_result[1].encoding
Buffers == enc_result[1].buffers

BatchWidths == {num_compressed_bits(enc_arrays[i]) : i \in 1..Len(enc_arrays)}
NativeBits == 8 * byte_width(enc_data_type)

\* C7: for a non-boolean fixed-stride type of native width W and a batch whose
\* per-array minimum widths are all defined with maximum w, encode emits
\* Bitpacked{w, W} if w < W; if w >= W, or any array of the batch is not
\* representable, it emits Flat{bits_per_value = W}.
C7_BitWidthSelection ==
    (enc_data_type # "Boolean" /\ EncodedOk) =>
        IF None \notin BatchWidths /\ \A b \in BatchWidths : b[1] < NativeBits
        THEN /\ Encoding.kind = "Bitpacked"
             /\ Some(Encoding.compressed_bits_per_value) \in BatchWidths
             /\ \A b \in BatchWidths : b[1] <= Encoding.compressed_bits_per_value
             /\ Encoding.uncompressed_bits_per_value = NativeBits
        ELSE /\ Encoding.kind = "Flat"
             /\ Encoding.bits_per_value = NativeBits

\* UInt8 [0,1,2,3,4,5], followed by a narrower array, gives Bitpacked 3/8
C7_Witness ==
    /\ EncodedOk
    /\ enc_data_type = "UInt8"
    /\ Len(enc_arrays) = 2
    /\ enc_arrays[1].values = <<0, 1, 2, 3, 4, 5>>
    /\ enc_arrays[2].values = <<1>>
    /\ Encoding.kind = "Bitpacked"
    /\ Encoding.compressed_bits_per_value = 3
    /\ Encoding.uncompressed_bits_per_value = 8

\* C8: every Bitpacked record produced by encode has
\* compressed_bits_per_value < uncompressed_bits_per_value.
C8_BitpackedNarrower ==
    (EncodedOk /\ Encoding.kind = "Bitpacked") =>
        Encoding.compressed_bits_per_value < Encoding.uncompressed_bits_per_value

C8_Witness ==
    /\ EncodedOk
    /\ enc_compression_scheme = "Zstd"
    /\ Encoding.kind = "Bitpacked"
    /\ Encoding.compressed_bits_per_value = 11
    /\ Encoding.uncompressed_bits_per_value = 16

\* C9: a boolean encoder, whatever its compression scheme, never emits
\* Bitpacked: it emits Flat with bits_per_value = 1 and the bytes of the bitmap
\* encoder, neither bit-packed nor block-compressed.
C9_BooleanBitmap ==
    (enc_pc = "encoder" /\ enc_data_type = "Boolean") =>
        /\ flat_buffer_encoder = "BitmapBufferEncoder"
        /\ bitpack_buffer_encoder = None
        /\ EncodedOk =>
            /\ Encoding.kind = "Flat"
            /\ Encoding.bits_per_value = 1
            /\ \A i \in 1..Len(Buffers) : Buffers[i].parts = <<"BitmapBufferEncoder">>

C9_Witness ==
    /\ enc_data_type = "Boolean"
    /\ enc_compression_scheme = "Zstd"
    /\ EncodedOk
    /\ Encoding.kind = "Flat"

\* C10: a successful encode called with buffer index i returns exactly one
\* buffer, of index i, with a record referencing buffer_index i of kind page,
\* and leaves the counter at i + 1; the indices read by the encode calls on one
\* counter are consecutive, so none repeats.
C10_BufferIndex ==
    /\ buffer_index = first_index + Len(index_log)
    /\ \A j \in 1..Len(index_log) : index_log[j] = first_index + j - 1
    /\ EncodedOk =>
        LET i == index_log[Len(index_log)]
        IN  /\ Len(Buffers) = 1
            /\ Buffers[1].index = i
            /\ Encoding.buffer = [buffer_index |-> i, buffer_type |-> "Page"]
            /\ buffer_index = i + 1

\* the second encode on a counter that started at 1
C10_Witness ==
    /\ EncodedOk
    /\ first_index = 1
    /\ index_log = <<1, 2>>
    /\ Encoding.kind = "Bitpacked"
    /\ Encoding.buffer.buffer_index = 2
    /\ Buffers[1].index = 2
    /\ buffer_index = 3

\* C11: every schedule_ranges call hands exactly one request to the I/O
\* submitter and never submits again; when the submitter's future resolves to
\* an error the call yields that same error and no decoder exists; when it
\* resolves to buffers the call yields a decoder whose data is exactly those
\* buffers and whose cache is empty until a decode call fills it
C11_SubmitOnceAndPropagate ==
    /\ sched_pc = "idle" => io_requests = <<>> /\ io_response = None /\ sched_result = None
    /\ sched_pc # "idle" => Len(io_requests) = 1
    /\ sched_pc = "awaiting" => io_response = None /\ sched_result = None
    /\ (io_response # None /\ ~io_response[1].ok) =>
            /\ sched_result = Some([ok |-> FALSE, error |-> io_response[1].error])
            /\ sched_pc = "error"
            /\ data = <<>> /\ uncompressed_data = None
            /\ \A t \in Threads : pc[t] = "idle"
    /\ (io_response # None /\ io_response[1].ok) =>
            /\ sched_result = Some([ok |-> TRUE])
            /\ sched_pc = "decoder"
            /\ data = io_response[1].bytes
            /\ decompress_calls = 0 => uncompressed_data = None

C11_Witness ==
    /\ io_response = Some([ok |-> FALSE, error |-> "Timeout"])
    /\ sched_result = Some([ok |-> FALSE, error |-> "Timeout"])
    /\ Len(io_requests) = 1
    /\ Len(io_requests[1]) = 2
    /\ compression_scheme = "None"

\* C12: constructing a ValueEncoder succeeds exactly when the data type is
\* boolean or fixed-stride, whatever the compression scheme; for every other
\* type it fails with InvalidInput, no encoder is produced and nothing can be
\* encoded
C12_ConstructionGuard ==
    enc_pc # "new" =>
        /\ (enc_pc = "encoder") = (enc_data_type = "Boolean" \/ is_fixed_stride(enc_data_type))
        /\ (enc_pc = "InvalidInput") = (enc_data_type = "Utf8")
        /\ enc_pc = "encoder" => flat_buffer_encoder # "none"
        /\ enc_pc = "InvalidInput" =>
                /\ flat_buffer_encoder = "none"
                /\ bitpack_buffer_encoder = None
                /\ index_log = <<>> /\ enc_result = None

C12_Witness ==
    /\ enc_pc = "InvalidInput"
    /\ enc_data_type = "Utf8"
    /\ flat_buffer_encoder = "none"

\* C13: parse_compression_scheme succeeds exactly on the names "none" and
\* "zstd", compared case-sensitively, and returns InvalidInput naming the
\* string for every other input; formatting is its inverse: parsing the
\* formatted name of a scheme gives the scheme, and formatting the scheme
\* parsed from an accepted name gives the name back
C13_ParseFormatInverse ==
    /\ parse_input # None =>
            /\ parse_result[1].ok = (parse_input[1] \in {"none", "zstd"})
            /\ parse_input[1] = "none" => parse_result[1] = [ok |-> TRUE, scheme |-> "None"]
            /\ parse_input[1] = "zstd" => parse_result[1] = [ok |-> TRUE, scheme |-> "Zstd"]
            /\ ~parse_result[1].ok =>
                    /\ parse_result[1].kind = "InvalidInput"
                    /\ parse_result[1].message[2] = parse_input[1]
    /\ (display_input # None /\ parse_input = display_result) =>
            parse_result = Some([ok |-> TRUE, scheme |-> display_input[1]])
    /\ (display_input # None /\ parse_result = Some([ok |-> TRUE, scheme |-> display_input[1]])) =>
            display_result = parse_input

C13_Witness ==
    /\ parse_input = Some("Zstd")
    /\ ~parse_result[1].ok
    /\ parse_result[1].kind = "InvalidInput"
    /\ display_input = Some("Zstd")
    /\ display_result = Some("zstd")

\* C14: update_capacity writes (bytes_per_value * num_rows, true) into the
\* single buffer slot for every rows_to_skip and num_rows, whether or not the
\* page is compressed and whatever the cache holds; it never sets the
\* all-null flag and leaves the decoder, its cache and the mutex as they
\* were; num_buffers is 1
C14_UpdateCapacity ==
    /\ [](\A t \in Threads :
            /\ Len(buffers[t]) = 1
            /\ num_buffers = 1
            /\ ~all_null[t]
            /\ pc[t] = "sized" =>
                    buffers[t] = << [size |-> bytes_per_value * num_rows[t], needed |-> TRUE] >>)
    /\ [][\A t \in Threads :
            (pc[t] = "idle" /\ pc'[t] = "sized") =>
                UNCHANGED <<decoderVars, lock, decompress_calls>>]_vars

C14_Witness ==
    /\ pc[1] = "sized"
    /\ rows_to_skip[1] = 1
    /\ num_rows[1] = 1
    /\ buffers[1] = << [size |-> 4, needed |-> TRUE] >>
    /\ is_compressed
    /\ uncompressed_data # None
    /\ pc[2] = "returned"

\* C15: one step of the scan over a chunk of length len: when len is at most
\* bytes_to_skip (equality included) the chunk contributes no bytes,
\* bytes_to_skip drops by exactly len and bytes_to_take is unchanged;
\* otherwise min(len - bytes_to_skip, bytes_to_take) bytes starting at offset
\* bytes_to_skip are appended, bytes_to_take drops by that number and
\* bytes_to_skip becomes 0
C15_ScanStepEffect ==
    [][\A t \in Threads :
        (pc[t] = "scan" /\ pc'[t] = "scan" /\ buf_idx'[t] = buf_idx[t] + 1) =>
            LET buf == Source(t)[buf_idx[t]]
                len == Len(buf)
                take_here == IF len - bytes_to_skip[t] < bytes_to_take[t]
                             THEN len - bytes_to_skip[t] ELSE bytes_to_take[t]
            IN  IF len <= bytes_to_skip[t]
                THEN /\ dest'[t] = dest[t]
                     /\ bytes_to_skip'[t] = bytes_to_skip[t] - len
                     /\ bytes_to_take'[t] = bytes_to_take[t]
                ELSE /\ dest'[t] = dest[t] \o
                            SubSeq(buf, bytes_to_skip[t] + 1, bytes_to_skip[t] + take_here)
                     /\ bytes_to_take'[t] = bytes_to_take[t] - take_here
                     /\ bytes_to_skip'[t] = 0]_vars

\* the first chunk was exactly as long as the bytes to skip: it has been
\* passed with nothing appended and nothing left to skip
C15_Witness ==
    /\ pc[1] = "scan"
    /\ buf_idx[1] = 2
    /\ rows_to_skip[1] > 0
    /\ Len(data[1]) = rows_to_skip[1] * bytes_per_value
    /\ bytes_to_skip[1] = 0
    /\ bytes_to_take[1] = num_rows[1] * bytes_per_value
    /\ bytes_to_take[1] > 0
    /\ dest[1] = <<>>

\* C16: when the scanned chunks hold fewer bytes after the initial skip than
\* bytes_per_value * num_rows, a skip beyond all their bytes included,
\* decode_into still returns success, and the destination has received
\* exactly the max(0, total - bytes_to_skip) bytes that follow the skip
C16_UnderSupplyIsSilent ==
    \A t \in Threads :
        LET all == Concat(Source(t))
            total == Len(all)
            skip == rows_to_skip[t] * bytes_per_value
            take == num_rows[t] * bytes_per_value
            left == IF total > skip THEN total - skip ELSE 0
        IN  (Returned(t) /\ left < take) =>
                /\ result[t] = "Ok"
                /\ Len(dest[t]) = left
                /\ dest[t] = SubSeq(all, total - left + 1, total)

\* two rows were asked for and fewer bytes than one row were there after the skip
C16_Witness ==
    /\ ReturnedOk(1)
    /\ Len(data) = 2
    /\ rows_to_skip[1] = 1
    /\ num_rows[1] = 2
    /\ Len(Concat(data)) = bytes_per_value + 3
    /\ Len(dest[1]) = 3
    /\ bytes_to_take[1] = 2 * bytes_per_value - 3

\* C17: once the first decompression has succeeded, the cache holds one
\* buffer per row range that was passed to schedule_ranges, in the order of
\* the ranges, and the i-th buffer is the bytes [start_i * bytes_per_value,
\* end_i * bytes_per_value) of the decompressed output of data[0]
C17_CacheSlicesPerRange ==
    uncompressed_data # None =>
        LET out == Decompress(data[1])
            cache == uncompressed_data[1]
        IN  /\ out.ok
            /\ Len(cache) = Len(req_ranges)
            /\ \A i \in 1..Len(req_ranges) :
                    cache[i] = SubSeq(out.bytes, req_ranges[i].start * bytes_per_value + 1,
                                      req_ranges[i].end * bytes_per_value)

\* two ranges given out of order: the cache keeps their order
C17_Witness ==
    /\ uncompressed_data # None
    /\ req_ranges = << [start |-> 1, end |-> 2], [start |-> 0, end |-> 1] >>
    /\ uncompressed_data[1] = << Slice(values, bytes_per_value, 2 * bytes_per_value),
                                 Slice(values, 0, bytes_per_value) >>
    /\ decompress_calls = 1

\* C18: over every sequence and interleaving of update_capacity and
\* decode_into calls on one decoder, bytes_per_value, the fetched buffers and
\* the logical offset list are never modified; the cache is the only field
\* that changes, it changes only from empty to populated, and a populated
\* cache never changes and never becomes empty again
C18_DecoderFrame ==
    [][sched_pc = "decoder" =>
        /\ bytes_per_value' = bytes_per_value
        /\ data' = data
        /\ uncompressed_range_offsets' = uncompressed_range_offsets
        /\ uncompressed_data # None => uncompressed_data' = uncompressed_data]_vars

\* both callers have sized and decoded on the populated cache, one of them
\* is sizing again
C18_Witness ==
    /\ uncompressed_data # None
    /\ decompress_calls = 1
    /\ ReturnedOk(1)
    /\ dest[1] # <<>>
    /\ pc[2] = "sized"
    /\ buffers[2][1].size > 0

\* C19: a decoder produced by schedule_ranges decodes from decompressed data
\* exactly when the scheduler's compression scheme is not None, for every
\* list of requested row ranges, the empty list included: the decoder of a
\* compressed page never copies the raw fetched bytes into a destination,
\* and the decoder of an uncompressed page never invokes the decompressor
C19_DecompressedIffCompressed ==
    \A t \in Threads :
        /\ compression_scheme # "None" => ~(src[t] = "data" /\ dest[t] # <<>>)
        /\ compression_scheme = "None" => decompress_calls = 0 /\ src[t] # "cache"

\* C20: for every supported type, boolean included, and every configured
\* compression scheme, the Flat record emitted by encode carries a
\* compression entry, naming the configured scheme, exactly when the emitted
\* bytes were produced by the block compressor, and none exactly when the
\* bytes are stored as they are
C20_CompressionEntryMatchesBytes ==
    (EncodedOk /\ Encoding.kind = "Flat") =>
        /\ (Encoding.compression # None) =
                (\A i \in 1..Len(Buffers) : Buffers[i].parts = <<"CompressedBufferEncoder">>)
        /\ (Encoding.compression = None) =
                (\A i \in 1..Len(Buffers) :
                    Buffers[i].parts \in {<<"FlatBufferEncoder">>, <<"BitmapBufferEncoder">>})
        /\ Encoding.compression # None =>
                Encoding.compression = Some([scheme |-> to_string(enc_compression_scheme)])

\* C21: at every step of decode_into's scan the bytes appended so far plus
\* the current bytes_to_take equal bytes_per_value * num_rows, bytes_to_skip
\* and bytes_to_take are never below zero, and every slice a step takes lies
\* within its chunk; so a call never appends more than
\* bytes_per_value * num_rows bytes, whatever the chunk list
C21_ScanCounters ==
    /\ [](\A t \in Threads :
            pc[t] \in {"scan", "returned"} =>
                /\ Len(dest[t]) + bytes_to_take[t] = bytes_per_value * num_rows[t]
                /\ bytes_to_skip[t] >= 0
                /\ bytes_to_take[t] >= 0
                /\ Len(dest[t]) <= bytes_per_value * num_rows[t])
    /\ [][\A t \in Threads :
            (pc[t] = "scan" /\ pc'[t] = "scan" /\ buf_idx'[t] = buf_idx[t] + 1) =>
                LET buf == Source(t)[buf_idx[t]]
                    taken == Len(dest'[t]) - Len(dest[t])
                IN  /\ taken >= 0
                    /\ taken > 0 => bytes_to_skip[t] + taken <= Len(buf)
                    /\ \A i \in 1..taken :
                            dest'[t][Len(dest[t]) + i] = buf[bytes_to_skip[t] + i]]_vars

\* in the middle of a scan: the skip ended inside an earlier chunk, some
\* bytes are appended and some are still to take
C21_Witness ==
    /\ pc[1] = "scan"
    /\ buf_idx[1] = 3
    /\ rows_to_skip[1] > 0
    /\ Len(data[1]) > rows_to_skip[1] * bytes_per_value
    /\ dest[1] # <<>>
    /\ bytes_to_take[1] > 0
    /\ Len(dest[1]) + bytes_to_take[1] = bytes_per_value * num_rows[1]

\* a caller is inside decode_into
InCall(t) == pc[t] \in {"lock_cache", "populate", "lock_read", "scan"}

\* C22: with concurrent decode_into calls on one decoder, under fair
\* scheduling every call eventually returns, with success or with the
\* decompression error; the mutex is never held by a caller that is not
\* inside a call, a caller never waits for the mutex while it holds it, and
\* after a call that failed decompression the mutex is free for later calls
C22_LockDeadlockFree ==
    /\ [](\A t \in Threads :
            /\ pc[t] # "panicked"
            /\ ~InCall(t) => lock # t
            /\ pc[t] \in {"lock_cache", "lock_read"} => lock # t
            /\ pc[t] = "populate" => lock = t
            /\ ReturnedErr(t) => lock # t)
    /\ \A t \in Threads : InCall(t) ~> Returned(t)

\* one caller waits for the mutex while the other scans the cache under it
C22_Witness ==
    /\ is_compressed
    /\ pc[1] = "lock_cache"
    /\ pc[2] = "scan"
    /\ src[2] = "cache"
    /\ lock = 2
====
